---- MODULE Spec2Model ----
(***************************************************************************)
(* shadow-lang front end: the lexer of sdw-lib/src/lex.rs and the          *)
(* recursive-descent parser of src/parse.rs.                               *)
(*                                                                         *)
(* A source text is a sequence of one-character strings.  lex is modelled  *)
(* one iteration of its outer `while !lb.done()` loop per step; parse one  *)
(* iteration of the Root loop per step, the grammar rules below it being   *)
(* recursive operators that return the queue they leave behind.            *)
(***************************************************************************)
EXTENDS Integers, Sequences, FiniteSets, TLC

\* ------------------------------------------------------------------ bounds
MaxLen == 4
MaxWs == 2
MaxToks == 2
MaxParams == 3
MaxStmtToks == 5

\* ------------------------------------------------------- character classes
Lower ==
    {"a","b","c","d","e","f","g","h","i","j","k","l","m",
     "n","o","p","q","r","s","t","u","v","w","x","y","z"}

Upper ==
    {"A","B","C","D","E","F","G","H","I","J","K","L","M",
     "N","O","P","Q","R","S","T","U","V","W","X","Y","Z"}

Digits ==
    {"0","1","2","3","4","5","6","7","8","9"}

is_ascii_alphabetic(c) == c \in Lower \cup Upper

is_ascii_digit(c) == c \in Digits

\* a whitespace test that leaves out the tab
is_ascii_whitespace_NoTab(c) == c \in {" ", "\n", "\f", "\r"}

\* char::is_ascii_whitespace: U+0020, U+0009, U+000A, U+000C, U+000D
is_ascii_whitespace(c) == c \in {" ", "\t", "\n", "\f", "\r"}

DigitVal(c) ==
    CASE c = "0" -> 0 [] c = "1" -> 1 [] c = "2" -> 2 [] c = "3" -> 3
      [] c = "4" -> 4 [] c = "5" -> 5 [] c = "6" -> 6 [] c = "7" -> 7
      [] c = "8" -> 8 [] c = "9" -> 9

\* ------------------------------------------------------------ i64 parsing
\* decimal digits of i64::MAX = 9223372036854775807
I64MaxDigits ==
    <<9,2,2,3,3,7,2,0,3,6,8,5,4,7,7,5,8,0,7>>

RECURSIVE StripZeros(_)
StripZeros(ds) ==
    IF Len(ds) > 1 /\ ds[1] = "0" THEN StripZeros(Tail(ds)) ELSE ds

RECURSIVE DigitsGreater(_, _, _)
\* ds (same length as ms) denotes a larger number than ms, compared from index i
DigitsGreater(ds, ms, i) ==
    IF i > Len(ds) THEN FALSE
    ELSE IF DigitVal(ds[i]) > ms[i] THEN TRUE
    ELSE IF DigitVal(ds[i]) < ms[i] THEN FALSE
    ELSE DigitsGreater(ds, ms, i + 1)

ExceedsI64(ds) ==
    LET s == StripZeros(ds) IN
    \/ Len(s) > Len(I64MaxDigits)
    \/ Len(s) = Len(I64MaxDigits) /\ DigitsGreater(s, I64MaxDigits, 1)

RECURSIVE DecimalValue(_)
DecimalValue(ds) ==
    IF ds = <<>> THEN 0
    ELSE 10 * DecimalValue(SubSeq(ds, 1, Len(ds) - 1)) + DigitVal(ds[Len(ds)])

\* a parse that keeps the low nine digits of a number beyond the range
parse_i64_Truncating(from) ==
    IF from = <<>> \/ \E i \in 1..Len(from) : ~is_ascii_digit(from[i])
      THEN [ok |-> FALSE, num |-> 0]
    ELSE IF Len(from) > 9
      THEN [ok |-> TRUE, num |-> DecimalValue(SubSeq(from, Len(from) - 8, Len(from)))]
    ELSE [ok |-> TRUE, num |-> DecimalValue(from)]

\* str::parse::<i64>: an optional sign, then one or more decimal digits,
\* the value within the signed 64-bit range
parse_i64(from) ==
    LET signed == from # <<>> /\ from[1] \in {"+", "-"}
        ds == IF signed THEN Tail(from) ELSE from
    IN  IF ds = <<>> \/ \E i \in 1..Len(ds) : ~is_ascii_digit(ds[i])
          THEN [ok |-> FALSE, num |-> 0]
        ELSE IF ExceedsI64(ds)
          THEN [ok |-> FALSE, num |-> 0]
        ELSE [ok |-> TRUE,
              num |-> IF signed /\ from[1] = "-" THEN 0 - DecimalValue(ds)
                      ELSE DecimalValue(ds)]

\* ------------------------------------------------------------ lexeme kinds
KW_FN == <<"f","n">>
KW_RETURN == <<"r","e","t","u","r","n">>

Ty(kind, text, num) == [kind |-> kind, text |-> text, num |-> num]

NoTy == Ty("None", <<>>, 0)

\* Keywords::new
Keywords_new(from) ==
    IF from = KW_FN THEN Ty("Keyword_Fn", <<>>, 0)
    ELSE IF from = KW_RETURN THEN Ty("Keyword_Return", <<>>, 0)
    ELSE NoTy

\* Regex::is_match is an unanchored search: [a-zA-Z][a-zA-Z0-9_]* matches
\* somewhere in the text exactly when the text holds an ASCII letter
IDN_RE_is_match(from) ==
    \E i \in 1..Len(from) : is_ascii_alphabetic(from[i])

\* LexemeTypes::new; NoTy stands for None
LexemeTypes_new(from) ==
    IF from = <<"(">> THEN Ty("OpenParen", <<>>, 0)
    ELSE IF from = <<")">> THEN Ty("CloseParen", <<>>, 0)
    ELSE IF from = <<"{">> THEN Ty("OpenBrace", <<>>, 0)
    ELSE IF from = <<"}">> THEN Ty("CloseBrace", <<>>, 0)
    ELSE IF from = <<";">> THEN Ty("Semicolon", <<>>, 0)
    ELSE IF Keywords_new(from) # NoTy THEN Keywords_new(from)
    ELSE IF parse_i64(from).ok THEN Ty("Literal", <<>>, parse_i64(from).num)
    ELSE IF IDN_RE_is_match(from) THEN Ty("Idn", from, 0)
    ELSE NoTy

\* ---------------------------------------------------------------- LexBuffer
PosInfo(line, column, length) ==
    [line |-> line, column |-> column, length |-> length]

NoErr == [token |-> <<>>, pos |-> PosInfo(0, 0, 0)]

NewLexBuffer(raw) ==
    [working |-> raw, position |-> 0, posinfo |-> PosInfo(0, 0, 0)]

\* LexBuffer::adv
adv(lb, by) ==
    [lb EXCEPT !.position = @ + by, !.posinfo.column = @ + by]

\* the value standing for the panic of LexBuffer::over
OOB == "position OOB"

\* LexBuffer::over
over(lb) ==
    IF lb.position < Len(lb.working) THEN lb.working[lb.position + 1] ELSE OOB

\* LexBuffer::eat
eat(lb) ==
    [ret |-> SubSeq(lb.working, 1, lb.position),
     lb |-> [lb EXCEPT !.working = SubSeq(lb.working, lb.position + 1, Len(lb.working)),
                       !.position = 0]]

\* LexBuffer::done
done(lb) == lb.working = <<>>

\* Lexeme::new with the column left at the end of the token
Lexeme_new_ColumnAtEnd(lb, raw_token) ==
    LET pos == PosInfo(lb.posinfo.line, lb.posinfo.column, Len(raw_token))
        ty == LexemeTypes_new(raw_token)
    IN  IF ty = NoTy
          THEN [tag |-> "Err", lexeme |-> [ty |-> NoTy, pos |-> pos],
                err |-> [token |-> raw_token, pos |-> pos]]
        ELSE [tag |-> "Ok", lexeme |-> [ty |-> ty, pos |-> pos], err |-> NoErr]

\* Lexeme::new.  column - length is a u64 subtraction: below zero the build
\* either panics (overflow checks) or wraps, both reported as "Underflow".
Lexeme_new(lb, raw_token) ==
    LET length == Len(raw_token) IN
    IF lb.posinfo.column < length
      THEN [tag |-> "Underflow", lexeme |-> [ty |-> NoTy, pos |-> PosInfo(0, 0, 0)], err |-> NoErr]
    ELSE
      LET pos == PosInfo(lb.posinfo.line, lb.posinfo.column - length, length)
          ty == LexemeTypes_new(raw_token)
      IN  IF ty = NoTy
            THEN [tag |-> "Err", lexeme |-> [ty |-> NoTy, pos |-> pos],
                  err |-> [token |-> raw_token, pos |-> pos]]
          ELSE [tag |-> "Ok", lexeme |-> [ty |-> ty, pos |-> pos], err |-> NoErr]

\* -------------------------------------------------------------- ShadowError
RECURSIVE split(_, _)
\* raw.split(sep).collect::<Vec<&str>>(): the empty text is one empty segment
split(text, sep) ==
    IF text = <<>> THEN << <<>> >>
    ELSE IF Head(text) = sep THEN << <<>> >> \o split(Tail(text), sep)
    ELSE LET rest == split(Tail(text), sep) IN
         << <<Head(text)>> \o Head(rest) >> \o Tail(rest)

RECURSIVE repeat_char(_, _)
\* repeat_char
repeat_char(ch, len) ==
    IF len = 0 THEN <<>> ELSE <<ch>> \o repeat_char(ch, len - 1)

Output(tag, lines) == [tag |-> tag, lines |-> lines]

NoOutput == Output("None", <<>>)

\* ShadowError::verbose: the lines it prints between the two "[ .. ]", or
\* the abort of .expect("an error was reported on a line that does not exist")
verbose(self, text) ==
    LET lines == split(text, "\n") IN
    IF self.pos.line >= Len(lines) THEN Output("Abort", <<>>)
    ELSE Output("Printed",
                <<lines[self.pos.line + 1],
                  repeat_char(" ", self.pos.column) \o repeat_char("^", self.pos.length)
                  \o <<" ", "-", " ", "e", "r", "r", "o", "r", " ", "o", "c", "c", "u",
                       "r", "e", "d", " ", "h", "e", "r", "e", "!">> >>)

\* ---------------------------------------------------------------------- lex
RECURSIVE AlphaRun(_)
\* while lb.over().is_ascii_alphabetic() { lb.adv(1) }; position = -1 on panic
AlphaRun(lb) ==
    IF over(lb) = OOB THEN [lb EXCEPT !.position = -1]
    ELSE IF is_ascii_alphabetic(over(lb)) THEN AlphaRun(adv(lb, 1))
    ELSE lb

RECURSIVE DigitRun(_)
\* while lb.over().is_ascii_digit() { lb.adv(1) }; position = -1 on panic
DigitRun(lb) ==
    IF over(lb) = OOB THEN [lb EXCEPT !.position = -1]
    ELSE IF is_ascii_digit(over(lb)) THEN DigitRun(adv(lb, 1))
    ELSE lb

\* the whitespace loop body counting a newline as two lines
WhitespaceStep_LineCountedTwice(lb) ==
    LET e == eat(adv(lb, 1)) IN
    IF e.ret = <<"\n">>
      THEN [e.lb EXCEPT !.posinfo.line = @ + 2, !.posinfo.column = 0]
    ELSE e.lb

\* the whitespace loop body resetting the column without counting the line
WhitespaceStep_LineNotCounted(lb) ==
    LET e == eat(adv(lb, 1)) IN
    IF e.ret = <<"\n">> THEN [e.lb EXCEPT !.posinfo.column = 0] ELSE e.lb

\* the body of the whitespace loop: adv(1), eat, count a newline
WhitespaceStep(lb) ==
    LET e == eat(adv(lb, 1)) IN
    IF e.ret = <<"\n">>
      THEN [e.lb EXCEPT !.posinfo.line = @ + 1, !.posinfo.column = 0]
    ELSE e.lb

RECURSIVE WhitespaceRun(_)
\* while !lb.working.is_empty() && lb.over().is_ascii_whitespace() { ... }
WhitespaceRun(lb) ==
    IF lb.working # <<>> /\ is_ascii_whitespace(over(lb))
      THEN WhitespaceRun(WhitespaceStep(lb))
    ELSE lb

LexOut(tag, lb, lexemes, err) ==
    [tag |-> tag, lb |-> lb, lexemes |-> lexemes, err |-> err]

\* eat-and-push that drops an unrecognised token and goes on
EatAndPush_SkipUnrecognised(lb, lexemes) ==
    LET e == eat(lb)
        l == Lexeme_new(e.lb, e.ret)
    IN  IF l.tag = "Ok" THEN LexOut("Continue", e.lb, Append(lexemes, l.lexeme), NoErr)
        ELSE LexOut("Continue", e.lb, lexemes, NoErr)

\* eat the pending token, build its lexeme and push it (or fail)
EatAndPush(lb, lexemes) ==
    LET e == eat(lb)
        l == Lexeme_new(e.lb, e.ret)
    IN  IF l.tag = "Ok" THEN LexOut("Continue", e.lb, Append(lexemes, l.lexeme), NoErr)
        ELSE LexOut(l.tag, e.lb, lexemes, l.err)

\* one iteration of the outer loop of lex, entered with !lb.done()
LexIter(lb, lexemes) ==
    IF is_ascii_alphabetic(over(lb)) THEN
        LET r == AlphaRun(lb) IN
        IF r.position = -1 THEN LexOut("Panic", lb, lexemes, NoErr)
        ELSE EatAndPush(r, lexemes)
    ELSE IF is_ascii_digit(over(lb)) THEN
        LET r == DigitRun(lb) IN
        IF r.position = -1 THEN LexOut("Panic", lb, lexemes, NoErr)
        ELSE EatAndPush(r, lexemes)
    ELSE IF is_ascii_whitespace(over(lb)) THEN
        LexOut("Continue", WhitespaceRun(lb), lexemes, NoErr)
    ELSE EatAndPush(adv(lb, 1), lexemes)

RECURSIVE LexLoop(_, _)
LexLoop(lb, lexemes) ==
    IF done(lb) THEN LexOut("Ok", lb, lexemes, NoErr)
    ELSE LET it == LexIter(lb, lexemes) IN
         IF it.tag = "Continue" THEN LexLoop(it.lb, it.lexemes)
         ELSE LexOut(it.tag, it.lb, <<>>, it.err)

\* lex(raw): tag "Ok" with the lexemes, "Err" with the error, or an abort
lex(raw) == LexLoop(NewLexBuffer(raw), <<>>)

\* ------------------------------------------------------------------- parse
\* The parser's lexemes are unpositioned kinds: Keyword(Fn), Keyword(Return),
\* Literal, Idn, OpenParen, CloseParen, OpenBrace, CloseBrace, Delimiter and
\* Newline, written as Ty records like the kinds the lexer builds.
PErr(kind, expected, got, given) ==
    [kind |-> kind, expected |-> expected, got |-> got, given |-> given]

NoPErr == PErr("None", "None", NoTy, <<>>)

\* bail!("Unexpected EOF") and .context("Unexpected EOF")
UnexpectedEOF == PErr("EOF", "None", NoTy, <<>>)

\* bail!("Expected {}, got {:?}", stringify!($variant), got)
Mismatch(expected, got) == PErr("Mismatch", expected, got, <<>>)

\* bail!("'Custom' variable types not implemented yet (given {})", from)
CustomType(given) == PErr("CustomType", "None", NoTy, given)

\* bail!("Only literal expressions are supported for now!")
OnlyLiteral == PErr("OnlyLiteral", "None", NoTy, <<>>)

NoNode == [tag |-> "None"]

POk(q, node) == [res |-> "Ok", q |-> q, node |-> node, err |-> NoPErr]

PFail(q, err) == [res |-> "Err", q |-> q, node |-> NoNode, err |-> err]

\* todo!()
PPanic(q) == [res |-> "Panic", q |-> q, node |-> NoNode, err |-> NoPErr]

TYPE_VOID == <<"v","o","i","d">>
TYPE_INT == <<"i","n","t">>

\* from_str falling back to the default type for an unknown spelling
PrimitiveType_from_str_DefaultVoid(from) ==
    IF from = TYPE_INT THEN [ok |-> TRUE, ty |-> "Int", err |-> NoPErr]
    ELSE [ok |-> TRUE, ty |-> "Void", err |-> NoPErr]

\* PrimitiveType::from_str
PrimitiveType_from_str(from) ==
    IF from = TYPE_VOID THEN [ok |-> TRUE, ty |-> "Void", err |-> NoPErr]
    ELSE IF from = TYPE_INT THEN [ok |-> TRUE, ty |-> "Int", err |-> NoPErr]
    ELSE [ok |-> FALSE, ty |-> "Void", err |-> CustomType(from)]

\* consume!: pop_front comes first, the popped lexeme is then matched
consume(q, variant) ==
    IF q = <<>> THEN PFail(q, UnexpectedEOF)
    ELSE IF Head(q).kind = variant THEN POk(Tail(q), Head(q))
    ELSE PFail(Tail(q), Mismatch(variant, Head(q)))

\* the `?` of Rust: an error (or abort) is returned at once, a success goes on
Try(r, Then(_)) == IF r.res # "Ok" THEN r ELSE Then(r)

\* front() of a non-empty queue is of the given kind
FrontIs(q, kind) == q # <<>> /\ Head(q).kind = kind

\* Expression::new reading the literal without pop_front
Expression_new_NoPop(q) ==
    IF q = <<>> THEN PFail(q, UnexpectedEOF)
    ELSE IF Head(q).kind = "Literal"
      THEN POk(q, [tag |-> "Literal", lit |-> Head(q).num])
    ELSE PFail(q, OnlyLiteral)

\* Expression::new
Expression_new(q) ==
    IF q = <<>> THEN PFail(q, UnexpectedEOF)
    ELSE IF Head(q).kind = "Literal"
      THEN POk(Tail(q), [tag |-> "Literal", lit |-> Head(q).num])
    ELSE PFail(q, OnlyLiteral)

\* PrimitiveType::from_str(..)? inside a rule that holds the queue q
Resolve(q, from) ==
    IF PrimitiveType_from_str(from).ok
      THEN POk(q, PrimitiveType_from_str(from).ty)
    ELSE PFail(q, PrimitiveType_from_str(from).err)

\* Parameter::new
Parameter_new(q) ==
    Try(consume(q, "Idn"), LAMBDA pmt :
    Try(Resolve(pmt.q, pmt.node.text), LAMBDA ty :
    Try(consume(ty.q, "Idn"), LAMBDA nm :
    POk(nm.q, [name |-> nm.node.text, pm_type |-> ty.node]))))

RECURSIVE ParamLoop_Reversed(_, _)
\* the parameter loop collecting the parameters last to first
ParamLoop_Reversed(q, params) ==
    IF q = <<>> THEN POk(q, params)
    ELSE Try(Parameter_new(q), LAMBDA p :
         IF FrontIs(p.q, "Delimiter")
           THEN ParamLoop_Reversed(consume(p.q, "Delimiter").q, <<p.node>> \o params)
         ELSE POk(p.q, <<p.node>> \o params))

RECURSIVE ParamLoop_DelimiterOptional(_, _)
\* the parameter loop going on to the next parameter without a Delimiter
ParamLoop_DelimiterOptional(q, params) ==
    IF q = <<>> THEN POk(q, params)
    ELSE Try(Parameter_new(q), LAMBDA p :
         IF FrontIs(p.q, "Delimiter")
           THEN ParamLoop_DelimiterOptional(consume(p.q, "Delimiter").q,
                                            Append(params, p.node))
         ELSE IF FrontIs(p.q, "Idn")
           THEN ParamLoop_DelimiterOptional(p.q, Append(params, p.node))
         ELSE POk(p.q, Append(params, p.node)))

RECURSIVE ParamLoop(_, _)
\* while !lexemes.is_empty() { push Parameter; Delimiter => continue, _ => break }
ParamLoop(q, params) ==
    IF q = <<>> THEN POk(q, params)
    ELSE Try(Parameter_new(q), LAMBDA p :
         IF FrontIs(p.q, "Delimiter")
           THEN ParamLoop(consume(p.q, "Delimiter").q, Append(params, p.node))
         ELSE POk(p.q, Append(params, p.node)))

RECURSIVE Function_new(_)
RECURSIVE Block_new(_)
RECURSIVE BlockLoop(_, _)
RECURSIVE Statement_new(_)

\* the return arm leaving the terminating Newline in the queue
ReturnStatement_NewlineLeft(q) ==
    Try(consume(q, "Keyword_Return"), LAMBDA kw :
    IF kw.q = <<>> THEN PFail(kw.q, UnexpectedEOF)
    ELSE
    Try(IF FrontIs(kw.q, "Newline") THEN POk(kw.q, <<>>)
        ELSE Try(Expression_new(kw.q), LAMBDA x : POk(x.q, <<x.node>>)), LAMBDA expr :
    IF ~FrontIs(expr.q, "Newline") THEN consume(expr.q, "Newline")
    ELSE POk(expr.q, [tag |-> "Return", expr |-> expr.node])))

\* the Keyword(Return) arm of Statement::new
ReturnStatement(q) ==
    Try(consume(q, "Keyword_Return"), LAMBDA kw :
    IF kw.q = <<>> THEN PFail(kw.q, UnexpectedEOF)
    ELSE
    Try(IF FrontIs(kw.q, "Newline") THEN POk(kw.q, <<>>)
        ELSE Try(Expression_new(kw.q), LAMBDA x : POk(x.q, <<x.node>>)), LAMBDA expr :
    Try(consume(expr.q, "Newline"), LAMBDA nl :
    POk(nl.q, [tag |-> "Return", expr |-> expr.node]))))

\* Statement::new
Statement_new(q) ==
    IF q = <<>> THEN PFail(q, UnexpectedEOF)
    ELSE IF Head(q).kind = "Keyword_Fn"
      THEN Try(Function_new(q), LAMBDA f : POk(f.q, [tag |-> "Function", fn |-> f.node]))
    ELSE IF Head(q).kind = "Keyword_Return" THEN ReturnStatement(q)
    ELSE PPanic(q)

\* Function::new
Function_new(q) ==
    Try(consume(q, "Keyword_Fn"), LAMBDA kw :
    Try(consume(kw.q, "Idn"), LAMBDA tp :
    Try(Resolve(tp.q, tp.node.text), LAMBDA ty :
    Try(consume(ty.q, "Idn"), LAMBDA nm :
    Try(consume(nm.q, "OpenParen"), LAMBDA op :
    Try(IF FrontIs(op.q, "CloseParen") THEN POk(op.q, <<>>)
        ELSE ParamLoop(op.q, <<>>), LAMBDA params :
    Try(consume(params.q, "CloseParen"), LAMBDA cp :
    Try(Block_new(cp.q), LAMBDA body :
    POk(body.q, [name |-> nm.node.text, body |-> body.node,
                 return_type |-> ty.node, params |-> params.node])))))))))

\* the statement loop of Block::new
BlockLoop(q, stmts) ==
    IF q = <<>> THEN POk(q, stmts)
    ELSE IF Head(q).kind = "CloseBrace" THEN POk(q, stmts)
    ELSE Try(Statement_new(q), LAMBDA s : BlockLoop(s.q, Append(stmts, s.node)))

\* Block::new taking the end of the input for the closing brace
Block_new_EofCloses(q) ==
    Try(consume(q, "OpenBrace"), LAMBDA ob :
    Try(BlockLoop(ob.q, <<>>), LAMBDA stmts :
    IF stmts.q = <<>> THEN POk(stmts.q, [stmts |-> stmts.node])
    ELSE Try(consume(stmts.q, "CloseBrace"), LAMBDA cb :
         POk(cb.q, [stmts |-> stmts.node]))))

\* Block::new
Block_new(q) ==
    Try(consume(q, "OpenBrace"), LAMBDA ob :
    Try(BlockLoop(ob.q, <<>>), LAMBDA stmts :
    Try(consume(stmts.q, "CloseBrace"), LAMBDA cb :
    POk(cb.q, [stmts |-> stmts.node]))))

RECURSIVE RootLoop(_, _)
\* the statement loop of Root::new
RootLoop(q, stmts) ==
    IF q = <<>> THEN POk(q, stmts)
    ELSE IF Head(q).kind = "CloseBrace" THEN POk(q, stmts)
    ELSE Try(Statement_new(q), LAMBDA s : RootLoop(s.q, Append(stmts, s.node)))

\* parse(lexemes): Root::new on the queue made of the lexemes
parse(ls) == RootLoop(ls, <<>>)

\* ------------------------------------------------------------------ inputs
RECURSIVE SeqsOfLen(_, _)
SeqsOfLen(S, k) ==
    IF k = 0 THEN {<<>>}
    ELSE {Append(s, x) : s \in SeqsOfLen(S, k - 1), x \in S}

SeqsUpTo(S, n) == UNION {SeqsOfLen(S, k) : k \in 0..n}

\* the characters of the enumerated sources
SrcChars == {"f", "n", "7", " ", "\n", "(", ",", "@"}

\* 'fn int main ( ) { return 0 ; }'
MinimalSemicolon ==
    <<"f","n"," ","i","n","t"," ","m","a","i","n"," ","("," ",")"," ","{"," ","r","e","t","u","r","n"," ","0"," ",";"," ","}">>

\* 'fn int main ( ) { return 0 \n }'
MinimalNewline ==
    <<"f","n"," ","i","n","t"," ","m","a","i","n"," ","("," ",")"," ","{"," ","r","e","t","u","r","n"," ","0"," ","\n"," ","}">>

\* 'fn int main() {\n\treturn 0;\n}\n'
MinimalSemicolonNewline ==
    <<"f","n"," ","i","n","t"," ","m","a","i","n","(",")"," ","{","\n","\t","r","e","t","u","r","n"," ","0",";","\n","}","\n">>

\* 'fn void f(int a, int b) { }'
TwoParams ==
    <<"f","n"," ","v","o","i","d"," ","f","(","i","n","t"," ","a",","," ","i","n","t"," ","b",")"," ","{"," ","}">>

\* 'fn void f()\n{\n  return\n}\n'
ReturnVoid ==
    <<"f","n"," ","v","o","i","d"," ","f","(",")","\n","{","\n"," "," ","r","e","t","u","r","n","\n","}","\n">>

MinimalPrograms == {MinimalSemicolon, MinimalNewline, MinimalSemicolonNewline}

Programs == MinimalPrograms \cup {TwoParams, ReturnVoid}

\* '(\n 9223372036854775808)'
OverflowBy1 ==
    <<"(","\n"," ","9","2","2","3","3","7","2","0","3","6","8","5","4","7","7","5","8","0","8",")">>

\* '10000000000000000000 '
Overflow20Digits ==
    <<"1","0","0","0","0","0","0","0","0","0","0","0","0","0","0","0","0","0","0","0"," ">>

\* '09223372036854775808;'
OverflowLeadingZero ==
    <<"0","9","2","2","3","3","7","2","0","3","6","8","5","4","7","7","5","8","0","8",";">>

\* '007 '
LeadingZeros ==
    <<"0","0","7"," ">>

LiteralPrograms == {OverflowBy1, Overflow20Digits, OverflowLeadingZero, LeadingZeros}

Sources == SeqsUpTo(SrcChars, MaxLen) \cup Programs \cup LiteralPrograms

NAME_MAIN == <<"m","a","i","n">>
NAME_FOO == <<"f","o","o">>
NAME_X == <<"x">>
NAME_Y == <<"y">>

Kw_Fn == Ty("Keyword_Fn", <<>>, 0)
Kw_Return == Ty("Keyword_Return", <<>>, 0)
Idn(text) == Ty("Idn", text, 0)
Lit(num) == Ty("Literal", <<>>, num)
OpenParen == Ty("OpenParen", <<>>, 0)
CloseParen == Ty("CloseParen", <<>>, 0)
OpenBrace == Ty("OpenBrace", <<>>, 0)
CloseBrace == Ty("CloseBrace", <<>>, 0)
Semicolon == Ty("Semicolon", <<>>, 0)
Delimiter == Ty("Delimiter", <<>>, 0)
Newline == Ty("Newline", <<>>, 0)

\* the lexemes of the enumerated parser inputs
SampleLexemes ==
    {Kw_Fn, Kw_Return, Idn(TYPE_INT), Idn(TYPE_VOID), Idn(NAME_FOO), Idn(NAME_X),
     Lit(0), OpenParen, CloseParen, OpenBrace, CloseBrace, Semicolon, Delimiter,
     Newline}

\* a parameter as written: its type spelling, its name, and whether a
\* Delimiter follows it
ParamSpecs ==
    [type : {TYPE_INT, TYPE_VOID, NAME_FOO}, name : {NAME_X, NAME_Y}, sep : BOOLEAN]

RECURSIVE ParamToks(_)
ParamToks(ps) ==
    IF ps = <<>> THEN <<>>
    ELSE <<Idn(Head(ps).type), Idn(Head(ps).name)>>
         \o (IF Head(ps).sep THEN <<Delimiter>> ELSE <<>>)
         \o ParamToks(Tail(ps))

FnHeader(type, name) == <<Kw_Fn, Idn(type), Idn(name), OpenParen>>

EmptyBody == <<CloseParen, OpenBrace, CloseBrace>>

\* fn <type> main ( <params> ) { }
FnInputs ==
    {FnHeader(t, NAME_MAIN) \o ParamToks(ps) \o EmptyBody :
        t \in {TYPE_INT, TYPE_VOID, NAME_FOO}, ps \in SeqsUpTo(ParamSpecs, MaxParams)}

\* fn int main ( ) { return 0 Newline }
MinimalLexemes ==
    FnHeader(TYPE_INT, NAME_MAIN)
    \o <<CloseParen, OpenBrace, Kw_Return, Lit(0), Newline, CloseBrace>>

\* return followed by anything
ReturnInputs == {<<Kw_Return>> \o s : s \in SeqsUpTo(SampleLexemes, MaxToks)}

\* statement streams at top level
StmtInputs == SeqsUpTo({Kw_Return, Lit(0), Newline, CloseBrace}, MaxStmtToks)

\* fn int main ( ) { <body> }
BodyInputs ==
    {FnHeader(TYPE_INT, NAME_MAIN) \o <<CloseParen, OpenBrace>> \o b \o <<CloseBrace>> :
        b \in SeqsUpTo({Kw_Return, Lit(0), Newline}, MaxStmtToks)}

\* fn int main ( int x , void y ) { return Newline
\*     fn void x ( ) { return 0 Newline } return 0 Newline }
NestedLexemes ==
    FnHeader(TYPE_INT, NAME_MAIN)
    \o <<Idn(TYPE_INT), Idn(NAME_X), Delimiter, Idn(TYPE_VOID), Idn(NAME_Y), CloseParen>>
    \o <<OpenBrace, Kw_Return, Newline>>
    \o FnHeader(TYPE_VOID, NAME_X)
    \o <<CloseParen, OpenBrace, Kw_Return, Lit(0), Newline, CloseBrace>>
    \o <<Kw_Return, Lit(0), Newline, CloseBrace>>

\* return 0 Newline return Newline } return
TwoStatementsThenBrace ==
    <<Kw_Return, Lit(0), Newline, Kw_Return, Newline, CloseBrace, Kw_Return>>

LexemeInputs ==
    SeqsUpTo(SampleLexemes, MaxToks) \cup FnInputs
    \cup {MinimalLexemes, NestedLexemes, TwoStatementsThenBrace}
    \cup ReturnInputs \cup StmtInputs \cup BodyInputs

\* ------------------------------------------------------------------- state
VARIABLES pc, raw, lb, lexemes, lexRes, printed, input, queue, stmts, parseRes

vars == <<pc, raw, lb, lexemes, lexRes, printed, input, queue, stmts, parseRes>>

lexVars == <<raw, lb, lexemes, lexRes, printed>>

parseVars == <<input, queue, stmts, parseRes>>

LexResult(tag, ls, err) == [tag |-> tag, lexemes |-> ls, err |-> err]

ParseResult(tag, root, err) == [tag |-> tag, root |-> root, err |-> err]

Init ==
    /\ pc = "idle"
    /\ raw = <<>>
    /\ lb = NewLexBuffer(<<>>)
    /\ lexemes = <<>>
    /\ lexRes = LexResult("None", <<>>, NoErr)
    /\ printed = NoOutput
    /\ input = <<>>
    /\ queue = <<>>
    /\ stmts = <<>>
    /\ parseRes = ParseResult("None", <<>>, NoPErr)

\* lex(raw) is called: the buffer and the lexeme vector are set up
CallLex ==
    /\ pc = "idle"
    /\ \E src \in Sources :
        /\ raw' = src
        /\ lb' = NewLexBuffer(src)
    /\ lexemes' = <<>>
    /\ pc' = "lex"
    /\ UNCHANGED <<lexRes, printed, parseVars>>

\* one iteration of `while !lb.done()`: it pushes a lexeme, skips
\* whitespace, or ends lex with an error or an abort
LexIteration ==
    /\ pc = "lex"
    /\ ~done(lb)
    /\ LET it == LexIter(lb, lexemes) IN
       IF it.tag = "Continue"
         THEN /\ lb' = it.lb
              /\ lexemes' = it.lexemes
              /\ UNCHANGED <<pc, lexRes>>
       ELSE /\ lb' = it.lb
            /\ lexRes' = LexResult(it.tag, <<>>, it.err)
            /\ pc' = "lexed"
            /\ UNCHANGED lexemes
    /\ UNCHANGED <<raw, printed, parseVars>>

\* strings of continuous characters
LexAlphabetic == is_ascii_alphabetic(over(lb)) /\ LexIteration

\* strings of numbers
LexDigits ==
    /\ ~is_ascii_alphabetic(over(lb))
    /\ is_ascii_digit(over(lb))
    /\ LexIteration

\* skip whitespace
LexWhitespace ==
    /\ ~is_ascii_alphabetic(over(lb))
    /\ ~is_ascii_digit(over(lb))
    /\ is_ascii_whitespace(over(lb))
    /\ LexIteration

\* the single-character fallback
LexSingle ==
    /\ ~is_ascii_alphabetic(over(lb))
    /\ ~is_ascii_digit(over(lb))
    /\ ~is_ascii_whitespace(over(lb))
    /\ LexIteration

\* the loop is left with lb.done(): Ok(lexemes)
LexReturn ==
    /\ pc = "lex"
    /\ done(lb)
    /\ lexRes' = LexResult("Ok", lexemes, NoErr)
    /\ pc' = "lexed"
    /\ UNCHANGED <<raw, lb, lexemes, printed, parseVars>>

\* e.verbose(raw) on the error lex returned for raw
Verbose ==
    /\ pc = "lexed"
    /\ lexRes.tag = "Err"
    /\ printed' = verbose(lexRes.err, raw)
    /\ pc' = "reported"
    /\ UNCHANGED <<raw, lb, lexemes, lexRes, parseVars>>

RECURSIVE KindsOf(_)
KindsOf(ls) ==
    IF ls = <<>> THEN <<>> ELSE <<Head(ls).ty>> \o KindsOf(Tail(ls))

\* the kinds of the lexemes lex returned, handed to parse as they are
LexedKinds == KindsOf(lexRes.lexemes)

\* parse(lexemes) on the result of a successful lex
ParseLexed ==
    /\ pc = "lexed"
    /\ lexRes.tag = "Ok"
    /\ input' = LexedKinds
    /\ queue' = LexedKinds
    /\ stmts' = <<>>
    /\ pc' = "parse"
    /\ UNCHANGED <<lexVars, parseRes>>

\* parse(lexemes) on a lexeme sequence of the caller's
CallParse ==
    /\ pc = "idle"
    /\ \E ls \in LexemeInputs :
        /\ input' = ls
        /\ queue' = ls
    /\ stmts' = <<>>
    /\ pc' = "parse"
    /\ UNCHANGED <<lexVars, parseRes>>

\* the Root iteration putting the new statement in front of the others
RootStatement_Prepends ==
    /\ pc = "parse"
    /\ queue # <<>>
    /\ Head(queue).kind # "CloseBrace"
    /\ LET s == Statement_new(queue) IN
       /\ queue' = s.q
       /\ IF s.res = "Ok"
            THEN /\ stmts' = <<s.node>> \o stmts
                 /\ UNCHANGED <<pc, parseRes>>
          ELSE /\ parseRes' = ParseResult(s.res, <<>>, s.err)
               /\ pc' = "parsed"
               /\ UNCHANGED stmts
    /\ UNCHANGED <<input, lexVars>>

\* one iteration of the loop of Root::new that parses a statement
RootStatement ==
    /\ pc = "parse"
    /\ queue # <<>>
    /\ Head(queue).kind # "CloseBrace"
    /\ LET s == Statement_new(queue) IN
       /\ queue' = s.q
       /\ IF s.res = "Ok"
            THEN /\ stmts' = Append(stmts, s.node)
                 /\ UNCHANGED <<pc, parseRes>>
          ELSE /\ parseRes' = ParseResult(s.res, <<>>, s.err)
               /\ pc' = "parsed"
               /\ UNCHANGED stmts
    /\ UNCHANGED <<input, lexVars>>

\* the loop of Root::new ends (empty queue or CloseBrace in front): Ok(node)
RootReturn ==
    /\ pc = "parse"
    /\ IF queue = <<>> THEN TRUE ELSE Head(queue).kind = "CloseBrace"
    /\ parseRes' = ParseResult("Ok", stmts, NoPErr)
    /\ pc' = "parsed"
    /\ UNCHANGED <<input, queue, stmts, lexVars>>

Next ==
    \/ CallLex
    \/ LexAlphabetic
    \/ LexDigits
    \/ LexWhitespace
    \/ LexSingle
    \/ LexReturn
    \/ Verbose
    \/ ParseLexed
    \/ CallParse
    \/ RootStatement
    \/ RootReturn

Spec == Init /\ [][Next]_vars

\* the condition under which Root::new takes another iteration
StatementAhead ==
    /\ pc = "parse"
    /\ queue # <<>>
    /\ Head(queue).kind # "CloseBrace"

\* Root::new runs its loop to the end: an iteration that can be taken is
\* taken, and the return after the loop is reached.  The fairness of
\* RootStatement is weak fairness written out, <>[]ENABLED => []<>step, with
\* StatementAhead for ENABLED <<RootStatement>>_vars: the iteration changes
\* pc or the queue whenever its guard holds.
LiveSpec ==
    /\ Spec
    /\ WF_vars(RootReturn)
    /\ []<>(~StatementAhead) \/ []<><<RootStatement>>_vars

\* --------------------------------------------------- positions in the source
Max(S) == CHOOSE x \in S : \A y \in S : y <= x

\* the number of '\n' among the first off characters
LineOf(src, off) == Cardinality({j \in 1..off : src[j] = "\n"})

\* the number of characters between the last '\n' before offset off (or the
\* start) and offset off
ColumnOf(src, off) == off - Max({0} \cup {j \in 1..off : src[j] = "\n"})

RECURSIVE LineStartFrom(_, _, _)
LineStartFrom(src, k, off) ==
    IF k = 0 THEN off
    ELSE IF \E j \in (off + 1)..Len(src) : src[j] = "\n"
      THEN LineStartFrom(src, k - 1,
               CHOOSE j \in (off + 1)..Len(src) :
                   /\ src[j] = "\n"
                   /\ \A m \in (off + 1)..(j - 1) : src[m] # "\n")
    ELSE -1

\* the offset of the first character of the given line, -1 without such a line
LineStart(src, line) == LineStartFrom(src, line, 0)

\* the offset in src a position points at, -1 when its line does not exist
OffsetOf(src, pos) ==
    IF LineStart(src, pos.line) = -1 THEN -1
    ELSE LineStart(src, pos.line) + pos.column

\* the characters of src a position spans
SliceAt(src, pos) ==
    SubSeq(src, OffsetOf(src, pos) + 1, OffsetOf(src, pos) + pos.length)

LexedOk == pc = "lexed" /\ lexRes.tag = "Ok"

\* ---------------------------------------------------------------------- C1
\* C1: lex ends every source with Ok(lexemes) or Err(error), never with an
\* abort, also when the source ends inside an alphabetic or a digit run.
C1_LexNeverAborts ==
    pc = "lexed" => lexRes.tag \in {"Ok", "Err"}

\* ---------------------------------------------------------------------- C2
FnMainReturn0 ==
    <<[tag |-> "Function",
       fn |-> [name |-> NAME_MAIN,
               body |-> [stmts |-> <<[tag |-> "Return",
                                      expr |-> <<[tag |-> "Literal", lit |-> 0]>>]>>],
               return_type |-> "Int",
               params |-> <<>>]]>>

\* C2: lexing the minimal program and parsing the lexemes lex returned gives
\* Ok(Root) holding the one function main: Int, no parameters, return 0.
C2_MinimalProgramParses ==
    (pc = "parsed" /\ lexRes.tag = "Ok" /\ raw \in MinimalPrograms)
        => parseRes = ParseResult("Ok", FnMainReturn0, NoPErr)

\* ---------------------------------------------------------------------- C3
\* C3: when lex comes to an '@' it returns Err(UnrecognisedToken("@")) whose
\* position is that character (line = newlines before it, column = its
\* offset in its line, length 1); it returns no lexemes and reads no further.
C3_UnrecognisedFailsFast ==
    [][(pc = "lex" /\ ~done(lb) /\ over(lb) = "@") =>
        LET off == Len(raw) - Len(lb.working) IN
        /\ pc' = "lexed"
        /\ lexRes' = LexResult("Err", <<>>,
                         [token |-> <<"@">>,
                          pos |-> PosInfo(LineOf(raw, off), ColumnOf(raw, off), 1)])
        /\ raw[off + 1] = "@"
        /\ lb'.working = Tail(lb.working)]_vars

C3_Witness ==
    /\ pc = "lexed"
    /\ lexRes.tag = "Err"
    /\ lexRes.err.token = <<"@">>
    /\ lexRes.err.pos.line > 0
    /\ lexRes.err.pos.column > 0
    /\ lb.working # <<>>

\* ---------------------------------------------------------------------- C4
\* C4: ( ) { } ; and ',' are each lexed into their punctuation lexeme, so an
\* UnrecognisedToken of one character never names one of them.
C4_PunctuationRecognised ==
    (pc = "lexed" /\ lexRes.tag = "Err" /\ Len(lexRes.err.token) = 1)
        => lexRes.err.token[1] \notin {"(", ")", "{", "}", ";", ","}

\* ---------------------------------------------------------------------- C5
\* the characters of src from offset a (exclusive) to offset b (inclusive)
Between(src, a, b) == {src[j] : j \in (a + 1)..b}

\* C5: in a successful result every lexeme's position is exact: its line is
\* the number of '\n' before the token, its column the distance from the
\* last '\n' (or the start), its length the token's length, and the slice of
\* the source there is the token; tokens are separated by whitespace only.
\* The subtraction column - length never goes below zero.
C5_PositionExact ==
    /\ pc = "lexed" => lexRes.tag # "Underflow"
    /\ LexedOk =>
        LET ls == lexRes.lexemes
            o(i) == OffsetOf(raw, ls[i].pos)
            e(i) == o(i) + ls[i].pos.length
        IN  /\ \A i \in 1..Len(ls) :
                /\ o(i) >= 0
                /\ e(i) <= Len(raw)
                /\ ls[i].pos.length >= 1
                /\ ls[i].pos.line = LineOf(raw, o(i))
                /\ ls[i].pos.column = ColumnOf(raw, o(i))
                /\ \A c \in Between(raw, o(i), e(i)) : ~is_ascii_whitespace(c)
                /\ LexemeTypes_new(SliceAt(raw, ls[i].pos)) = ls[i].ty
                /\ \A c \in Between(raw, IF i = 1 THEN 0 ELSE e(i - 1), o(i)) :
                        is_ascii_whitespace(c)
            /\ \A c \in Between(raw, IF ls = <<>> THEN 0 ELSE e(Len(ls)), Len(raw)) :
                    is_ascii_whitespace(c)

C5_Witness ==
    /\ LexedOk
    /\ \E i \in 1..Len(lexRes.lexemes) :
        /\ lexRes.lexemes[i].pos.line > 0
        /\ lexRes.lexemes[i].pos.column > 0
        /\ lexRes.lexemes[i].pos.length > 1

\* ---------------------------------------------------------------------- C6
LexLeq(p, q) == p.line < q.line \/ (p.line = q.line /\ p.column <= q.column)

\* C6: in a successful result the (line, column) pairs of adjacent lexemes
\* never decrease, and the lexemes come in the order of their tokens in the
\* source.
C6_PositionMonotonic ==
    LexedOk =>
        \A i \in 1..(Len(lexRes.lexemes) - 1) :
            /\ LexLeq(lexRes.lexemes[i].pos, lexRes.lexemes[i + 1].pos)
            /\ OffsetOf(raw, lexRes.lexemes[i].pos) < OffsetOf(raw, lexRes.lexemes[i + 1].pos)

C6_Witness ==
    /\ LexedOk
    /\ Len(lexRes.lexemes) >= 3
    /\ lexRes.lexemes[1].pos.line = lexRes.lexemes[2].pos.line
    /\ lexRes.lexemes[2].pos.line < lexRes.lexemes[3].pos.line
    /\ lexRes.lexemes[3].pos.column < lexRes.lexemes[2].pos.column

\* ---------------------------------------------------------------------- C7
\* the whitespace inserted between lexemes
WsStrings == SeqsUpTo({" ", "\t", "\n"}, MaxWs) \ {<<>>}

InsertAt(src, off, ws) ==
    SubSeq(src, 1, off) \o ws \o SubSeq(src, off + 1, Len(src))

\* the offsets between the end of lexeme i and the start of lexeme i + 1
Boundaries(src, ls) ==
    UNION {(OffsetOf(src, ls[i].pos) + ls[i].pos.length)..OffsetOf(src, ls[i + 1].pos) :
              i \in 1..(Len(ls) - 1)}

\* C7: whitespace inserted at a boundary between two adjacent lexemes of a
\* source that lexes leaves lex successful with the same kinds and payloads.
C7_WhitespaceInvariant ==
    LexedOk =>
        \A off \in Boundaries(raw, lexRes.lexemes) : \A ws \in WsStrings :
            LET r == lex(InsertAt(raw, off, ws)) IN
            /\ r.tag = "Ok"
            /\ KindsOf(r.lexemes) = KindsOf(lexRes.lexemes)

C7_Witness ==
    /\ LexedOk
    /\ Len(lexRes.lexemes) >= 2
    /\ lexRes.lexemes[1].ty.kind = "Keyword_Fn"
    /\ lexRes.lexemes[2].ty.kind = "Literal"
    /\ Boundaries(raw, lexRes.lexemes) # {}
    /\ \E off \in Boundaries(raw, lexRes.lexemes) :
        lex(InsertAt(raw, off, <<"\n", "\t">>)).lexemes[2].pos # lexRes.lexemes[2].pos

\* ------------------------------------------- the parameter list as written
IsIdn(toks, i) == i >= 1 /\ i <= Len(toks) /\ toks[i].kind = "Idn"

IsAt(toks, i, lexeme) == i >= 1 /\ i <= Len(toks) /\ toks[i] = lexeme

ValidType(text) == text \in {TYPE_VOID, TYPE_INT}

TypeNamed(text) == IF text = TYPE_VOID THEN "Void" ELSE "Int"

\* toks opens with `fn <void|int> <name> (`
HeaderOk(toks) ==
    /\ IsAt(toks, 1, Kw_Fn)
    /\ IsIdn(toks, 2)
    /\ ValidType(toks[2].text)
    /\ IsIdn(toks, 3)
    /\ IsAt(toks, 4, OpenParen)

RECURSIVE ParamTypePosition(_, _)
\* index i is where a parameter type of the first function is written: right
\* after the `(`, or after `<void|int> <name> ,` written at a type position
ParamTypePosition(toks, i) ==
    /\ HeaderOk(toks)
    /\ IF i = 5 THEN TRUE
       ELSE /\ i >= 8
            /\ IsAt(toks, i - 1, Delimiter)
            /\ IsIdn(toks, i - 2)
            /\ IsIdn(toks, i - 3)
            /\ ValidType(toks[i - 3].text)
            /\ ParamTypePosition(toks, i - 3)

NoList == [ok |-> FALSE, params |-> <<>>, close |-> 0]

RECURSIVE WrittenParams(_, _)
\* the parameters `T n , T n , ... , T n )` written from index i on, with the
\* index of the closing paren
WrittenParams(toks, i) ==
    IF ~(IsIdn(toks, i) /\ ValidType(toks[i].text) /\ IsIdn(toks, i + 1)) THEN NoList
    ELSE
      LET p == [name |-> toks[i + 1].text, pm_type |-> TypeNamed(toks[i].text)] IN
      IF IsAt(toks, i + 2, CloseParen)
        THEN [ok |-> TRUE, params |-> <<p>>, close |-> i + 2]
      ELSE IF IsAt(toks, i + 2, Delimiter)
        THEN LET r == WrittenParams(toks, i + 3) IN
             IF r.ok THEN [ok |-> TRUE, params |-> <<p>> \o r.params, close |-> r.close]
             ELSE NoList
      ELSE NoList

\* the parameter list of a first function written `( )` or `( T n , ... )`
WrittenList(toks) ==
    IF ~HeaderOk(toks) THEN NoList
    ELSE IF IsAt(toks, 5, CloseParen) THEN [ok |-> TRUE, params |-> <<>>, close |-> 5]
    ELSE WrittenParams(toks, 5)

ReturnBody == <<CloseParen, OpenBrace, Kw_Return, Lit(0), Newline, CloseBrace>>

Parsed == pc = "parsed"

\* ---------------------------------------------------------------------- C8
\* C8: a function written with an empty list `( )`, or with n >= 1
\* parameters `T n` separated by Delimiters and no trailing Delimiter, parses
\* to a Function whose params are those n (type, name) pairs, left to right.
C8_ParameterList ==
    Parsed =>
        LET w == WrittenList(input) IN
        (w.ok /\ SubSeq(input, w.close, Len(input)) \in {EmptyBody, ReturnBody})
            => /\ parseRes.tag = "Ok"
               /\ Len(parseRes.root) = 1
               /\ parseRes.root[1].tag = "Function"
               /\ parseRes.root[1].fn.params = w.params
               /\ Len(parseRes.root[1].fn.params) * 3 = IF w.close = 5 THEN 0 ELSE w.close - 4

C8_Witness ==
    /\ Parsed
    /\ parseRes.tag = "Ok"
    /\ Len(parseRes.root) = 1
    /\ parseRes.root[1].tag = "Function"
    /\ Len(parseRes.root[1].fn.params) >= 2
    /\ parseRes.root[1].fn.params[1].name # parseRes.root[1].fn.params[2].name
    /\ parseRes.root[1].fn.params[1].pm_type # parseRes.root[1].fn.params[2].pm_type

\* ---------------------------------------------------------------------- C9
\* a parameter `T n` at a type position i, followed by an identifier
MissingDelimiter(toks, i) ==
    /\ ParamTypePosition(toks, i)
    /\ IsIdn(toks, i)
    /\ ValidType(toks[i].text)
    /\ IsIdn(toks, i + 1)
    /\ IsIdn(toks, i + 2)

\* C9: a parameter followed by another with no Delimiter between them makes
\* parse fail with the mismatch `expected CloseParen, got <the identifier
\* after the first parameter>`: the loop has stopped, and only that
\* identifier has been taken from the queue.
C9_MissingDelimiter ==
    Parsed =>
        \A i \in 5..Len(input) :
            MissingDelimiter(input, i) =>
                /\ parseRes = ParseResult("Err", <<>>, Mismatch("CloseParen", input[i + 2]))
                /\ queue = SubSeq(input, i + 3, Len(input))

C9_Witness ==
    /\ Parsed
    /\ MissingDelimiter(input, 8)
    /\ parseRes.err.kind = "Mismatch"
    /\ parseRes.err.got = Idn(NAME_FOO)
    /\ IsIdn(input, 11)
    /\ IsAt(input, 12, CloseParen)

\* --------------------------------------------------------------------- C10
RECURSIVE Suffixes(_)
Suffixes(toks) ==
    IF toks = <<>> THEN {<<>>} ELSE {toks} \cup Suffixes(Tail(toks))

\* index i of toks is the return-type position of the first function, or one
\* of its parameter type positions, and holds a spelling other than void, int
CustomTypeAt(toks, i) ==
    /\ IsIdn(toks, i)
    /\ ~ValidType(toks[i].text)
    /\ IF i = 2 THEN IsAt(toks, 1, Kw_Fn) ELSE ParamTypePosition(toks, i)

\* C10: an identifier other than "void" and "int" in a return-type or a
\* parameter type position makes Function::new, Parameter::new and parse
\* fail with the custom-type error naming it; "void" resolves to Void and
\* "int" to Int.
C10_UnresolvableType ==
    Parsed =>
        /\ \A i \in 2..Len(input) :
              CustomTypeAt(input, i) =>
                  parseRes = ParseResult("Err", <<>>, CustomType(input[i].text))
        /\ \A q \in Suffixes(input) :
              /\ (IsAt(q, 1, Kw_Fn) /\ IsIdn(q, 2) /\ ~ValidType(q[2].text))
                    => /\ Function_new(q).res = "Err"
                       /\ Function_new(q).err = CustomType(q[2].text)
              /\ (IsIdn(q, 1) /\ ~ValidType(q[1].text))
                    => /\ Parameter_new(q).res = "Err"
                       /\ Parameter_new(q).err = CustomType(q[1].text)
        /\ (parseRes.tag = "Ok" /\ IsAt(input, 1, Kw_Fn))
              => /\ ValidType(input[2].text)
                 /\ parseRes.root[1].fn.return_type = TypeNamed(input[2].text)
                 /\ \A k \in 1..Len(parseRes.root[1].fn.params) :
                       /\ ValidType(input[3 * k + 2].text)
                       /\ parseRes.root[1].fn.params[k].pm_type = TypeNamed(input[3 * k + 2].text)

C10_Witness ==
    /\ Parsed
    /\ CustomTypeAt(input, 8)
    /\ parseRes.tag = "Err"
    /\ parseRes.err = CustomType(NAME_FOO)

\* --------------------------------------------------------------------- C11
\* C11: parse of a sequence whose first lexeme is neither Keyword(Fn) nor
\* Keyword(Return) (nor the CloseBrace that ends Root) returns an error
\* result: not Ok, not an abort, and the lexeme is not skipped.
C11_UnsupportedStatementIsError ==
    (Parsed /\ input # <<>>
            /\ Head(input).kind \notin {"Keyword_Fn", "Keyword_Return", "CloseBrace"})
        => /\ parseRes.tag = "Err"
           /\ queue = input

\* --------------------------------------------------------------------- C12
ReturnNode(expr) == [tag |-> "Return", expr |-> expr]

\* C12: after Keyword(Return), a Newline gives Return(None) and takes
\* [Return, Newline]; otherwise an integer Literal followed by Newline gives
\* Return(Some(Literal)) and takes three lexemes; anything else fails.
C12_ReturnStatement ==
    Parsed =>
        \A q \in Suffixes(input) :
            FrontIs(q, "Keyword_Return") =>
                IF IsAt(q, 2, Newline)
                  THEN Statement_new(q) = POk(SubSeq(q, 3, Len(q)), ReturnNode(<<>>))
                ELSE IF Len(q) >= 3 /\ q[2].kind = "Literal" /\ q[3] = Newline
                  THEN Statement_new(q)
                         = POk(SubSeq(q, 4, Len(q)),
                               ReturnNode(<<[tag |-> "Literal", lit |-> q[2].num]>>))
                ELSE Statement_new(q).res = "Err"

C12_Witness ==
    /\ Parsed
    /\ parseRes.tag = "Ok"
    /\ Len(parseRes.root) = 2
    /\ parseRes.root[1] = ReturnNode(<<>>)
    /\ parseRes.root[2] = ReturnNode(<<[tag |-> "Literal", lit |-> 0]>>)
    /\ queue = <<>>

\* --------------------------------------------------------------------- C13
\* the longest prefix of w made of digits
DigitPrefix(w) ==
    SubSeq(w, 1, Max({0} \cup {k \in 1..Len(w) : \A j \in 1..k : is_ascii_digit(w[j])}))

\* a digit run without its leading zeros (one digit is kept)
Significant(ds) ==
    SubSeq(ds, Max({1} \cup {k \in 1..Len(ds) : \A j \in 1..(k - 1) : ds[j] = "0"}), Len(ds))

RECURSIVE RunValue(_)
\* the decimal value of a digit run
RunValue(ds) ==
    IF ds = <<>> THEN 0 ELSE 10 * RunValue(SubSeq(ds, 1, Len(ds) - 1)) + DigitVal(ds[Len(ds)])

\* the run denotes a number above 9 223372036 854775807
Above63Bits(ds) ==
    \/ Len(Significant(ds)) > 19
    \/ /\ Len(Significant(ds)) = 19
       /\ RunValue(SubSeq(Significant(ds), 1, 1)) = 9
       /\ \/ RunValue(SubSeq(Significant(ds), 2, 10)) > 223372036
          \/ /\ RunValue(SubSeq(Significant(ds), 2, 10)) = 223372036
             /\ RunValue(SubSeq(Significant(ds), 11, 19)) > 854775807

\* C13: a digit run above the signed 64-bit range that is followed by a
\* non-digit makes lex return Err(UnrecognisedToken(<the digits>)) at the
\* run's position; a Literal that is emitted carries the decimal value of
\* its run.
C13_LiteralOverflow ==
    [][(pc = "lex" /\ ~done(lb) /\ is_ascii_digit(over(lb))
           /\ Len(DigitPrefix(lb.working)) < Len(lb.working)) =>
        LET run == DigitPrefix(lb.working)
            off == Len(raw) - Len(lb.working)
        IN  IF Above63Bits(run)
              THEN /\ pc' = "lexed"
                   /\ lexRes' = LexResult("Err", <<>>,
                                    [token |-> run,
                                     pos |-> PosInfo(LineOf(raw, off), ColumnOf(raw, off),
                                                     Len(run))])
            ELSE /\ pc' = "lex"
                 /\ lexemes' = Append(lexemes,
                                  [ty |-> Ty("Literal", <<>>, RunValue(run)),
                                   pos |-> PosInfo(LineOf(raw, off), ColumnOf(raw, off),
                                                   Len(run))])]_vars

C13_Witness ==
    /\ pc = "lexed"
    /\ lexRes.tag = "Err"
    /\ Len(lexRes.err.token) = 19
    /\ is_ascii_digit(lexRes.err.token[1])
    /\ lexRes.err.pos.line > 0
    /\ lexRes.err.pos.column > 0
    /\ lb.working # <<>>

\* --------------------------------------------------------------------- C14
\* C14: consume! takes a lexeme from the queue only when the front lexeme
\* matches the pattern; when it fails, with the EOF error or with the
\* mismatch error, the queue is as it was before the call: after a parse
\* that ended in a mismatch the lexeme reported is still the front one.
C14_ConsumeFailureKeepsQueue ==
    (Parsed /\ parseRes.tag = "Err") =>
        /\ parseRes.err.kind = "EOF" => queue = <<>>
        /\ parseRes.err.kind = "Mismatch" =>
              /\ queue # <<>>
              /\ Head(queue) = parseRes.err.got

\* --------------------------------------------------------------------- C15
RECURSIVE StatementsIn(_)
\* the statements written one after the other in p
StatementsIn(p) ==
    IF p = <<>> THEN <<>>
    ELSE <<Statement_new(p).node>> \o StatementsIn(Statement_new(p).q)

\* C15: when parse returns Ok(Root) the lexemes left are none or a suffix of
\* the input that begins with CloseBrace, and Root.stmts holds, in source
\* order, the statements written before that point; an input that begins
\* with CloseBrace gives the empty Root.
C15_RootStopsAtCloseBrace ==
    (Parsed /\ parseRes.tag = "Ok") =>
        LET taken == Len(input) - Len(queue) IN
        /\ IF queue = <<>> THEN TRUE ELSE Head(queue) = CloseBrace
        /\ taken >= 0
        /\ queue = SubSeq(input, taken + 1, Len(input))
        /\ parseRes.root = StatementsIn(SubSeq(input, 1, taken))
        /\ FrontIs(input, "CloseBrace") => (parseRes.root = <<>> /\ queue = input)

C15_Witness ==
    /\ Parsed
    /\ parseRes.tag = "Ok"
    /\ Len(parseRes.root) = 2
    /\ parseRes.root[1] # parseRes.root[2]
    /\ Len(queue) >= 1

\* --------------------------------------------------------------------- C16
\* the input was parsed, to its last lexeme, as one top-level function
SingleFunction ==
    /\ Parsed
    /\ parseRes.tag = "Ok"
    /\ queue = <<>>
    /\ Len(parseRes.root) = 1
    /\ parseRes.root[1].tag = "Function"

\* the cuts of the parsed input: its non-empty proper prefixes
Cuts == {SubSeq(input, 1, k) : k \in 1..(Len(input) - 1)}

\* C16: when a lexeme sequence parses, all lexemes consumed, as a single
\* top-level Function, parse of every non-empty proper prefix of it fails
\* with the Unexpected EOF error: not Ok, no mismatch error, no abort.
C16_TruncatedInputIsEOF ==
    SingleFunction =>
        \A cut \in Cuts :
            /\ parse(cut).res = "Err"
            /\ parse(cut).err = UnexpectedEOF

\* a function with two parameters, a return without value and a nested
\* function in its block
C16_Witness ==
    /\ SingleFunction
    /\ Len(parseRes.root[1].fn.params) = 2
    /\ Len(parseRes.root[1].fn.body.stmts) = 3
    /\ \E i \in 1..3 : parseRes.root[1].fn.body.stmts[i].tag = "Function"
    /\ \E cut \in Cuts : cut[Len(cut)] = Delimiter

\* --------------------------------------------------------------------- C17
RECURSIVE AlphaPrefix(_)
\* the alphabetic run that text begins with
AlphaPrefix(text) ==
    IF text = <<>> THEN <<>>
    ELSE IF is_ascii_alphabetic(Head(text)) THEN <<Head(text)>> \o AlphaPrefix(Tail(text))
    ELSE <<>>

\* the lexeme kind claimed for an alphabetic run
ClassOf(run) ==
    IF run = KW_FN THEN Ty("Keyword_Fn", <<>>, 0)
    ELSE IF run = KW_RETURN THEN Ty("Keyword_Return", <<>>, 0)
    ELSE Ty("Idn", run, 0)

\* [A-Za-z][A-Za-z0-9_]* matched against the whole text
WholeIdn(text) ==
    /\ text # <<>>
    /\ is_ascii_alphabetic(text[1])
    /\ \A i \in 2..Len(text) :
          is_ascii_alphabetic(text[i]) \/ is_ascii_digit(text[i]) \/ text[i] = "_"

\* C17: the loop iteration that meets an alphabetic run pushes one lexeme
\* for it and goes on, Keyword(Fn) for "fn", Keyword(Return) for "return",
\* Idn(run) otherwise; and in every Ok result of lex no Idn carries the text
\* "fn" or "return" and every Idn text matches [A-Za-z][A-Za-z0-9_]* whole.
C17_AlphabeticRunClassified ==
    /\ (pc = "lex" /\ ~done(lb) /\ is_ascii_alphabetic(over(lb))) =>
          LET it == LexIter(lb, lexemes) IN
          /\ it.tag = "Continue"
          /\ Len(it.lexemes) = Len(lexemes) + 1
          /\ it.lexemes[Len(it.lexemes)].ty = ClassOf(AlphaPrefix(lb.working))
    /\ LexedOk =>
          \A i \in 1..Len(lexRes.lexemes) :
              lexRes.lexemes[i].ty.kind = "Idn" =>
                  /\ lexRes.lexemes[i].ty.text \notin {KW_FN, KW_RETURN}
                  /\ WholeIdn(lexRes.lexemes[i].ty.text)

\* --------------------------------------------------------------------- C18
\* the pieces of the lexed source between its newlines
SourceLines == split(raw, "\n")

\* C18: the error lex returns for a source names a line of that source
\* (line < number of segments split on "\n") and a span inside that line
\* (column + length <= its length), so verbose on that source prints the
\* line and the marker and does not abort.
C18_DiagnosticInsideBuffer ==
    /\ (pc \in {"lexed", "reported"} /\ lexRes.tag = "Err") =>
          /\ lexRes.err.pos.line < Len(SourceLines)
          /\ lexRes.err.pos.column + lexRes.err.pos.length
                <= Len(SourceLines[lexRes.err.pos.line + 1])
          /\ verbose(lexRes.err, raw).tag = "Printed"
    /\ pc = "reported" => printed.tag = "Printed"

\* an error on the second line, not in its first column, printed by verbose
C18_Witness ==
    /\ pc = "reported"
    /\ printed.tag = "Printed"
    /\ lexRes.err.pos.line >= 1
    /\ lexRes.err.pos.column >= 1
    /\ lexRes.err.pos.length >= 2
    /\ printed.lines[1] = SourceLines[lexRes.err.pos.line + 1]

\* --------------------------------------------------------------------- C19
\* s is what is left of q after at least one lexeme was taken from its front
ProperSuffix(s, q) ==
    /\ Len(s) < Len(q)
    /\ s = SubSeq(q, Len(q) - Len(s) + 1, Len(q))

\* the results of the five rules called on q
RuleResults(q) ==
    {Statement_new(q), Function_new(q), Parameter_new(q), Block_new(q),
     Expression_new(q)}

\* every successful rule, called at any point of the parsed input, leaves a
\* proper suffix of the queue it was given
RuleProgress ==
    \A q \in Suffixes(input) : \A r \in RuleResults(q) :
        r.res = "Ok" => ProperSuffix(r.q, q)

\* an iteration of the Root loop after which the loop goes on
RootIterates == pc = "parse" /\ pc' = "parse"

\* C19: every successful Statement, Function, Parameter, Block and
\* Expression parse takes at least one lexeme from the front of the queue
\* and leaves the rest as it was (the queue after is a proper suffix of the
\* queue before), every iteration of the Root loop shrinks the queue, and
\* every parse that was started ends (Ok, Err, or the abort of C11).
C19_ProgressAndTermination ==
    /\ [](Parsed => RuleProgress)
    /\ [][RootIterates => ProperSuffix(queue', queue)]_vars
    /\ (pc = "parse") ~> Parsed

\* a parse that went through the Root loop, the parameter loop and the Block
\* loop more than once has ended
C19_Witness ==
    /\ Parsed
    /\ parseRes.tag = "Ok"
    /\ Len(input) >= 12
    /\ queue = <<>>
    /\ \E i \in 1..Len(parseRes.root) :
          /\ parseRes.root[i].tag = "Function"
          /\ Len(parseRes.root[i].fn.params) >= 2
          /\ Len(parseRes.root[i].fn.body.stmts) >= 2

====
